---- MODULE Spec2Model ----
(***************************************************************************)
(* RxPoller: a named, restartable poller built on RxJS 4.                  *)
(*                                                                         *)
(* The repository holds two builds of the class, src/RxPoller.ts and the   *)
(* compiled dist/RxPoller.js, and they differ (the initial value of        *)
(* _maxInterval$, the wrapper setAction stores, destroy/removePoller).     *)
(* The variable build says which one runs; it never changes.               *)
(*                                                                         *)
(* Time is in milliseconds.  A timer is a record [kind, rem] holding the   *)
(* time left until it fires; every pending timer lives in the bag          *)
(* timers[p]; the clock moves from one deadline to the next.  The Rx operators (zip, repeatWhen, retryWhen, publish,      *)
(* connect, fromPromise, timer) are modelled by what RxJS 4 does at the    *)
(* places the class uses them.                                             *)
(***************************************************************************)
EXTENDS Integers, Sequences, FiniteSets, Bags, TLC

\* ------------------------------------------------------------- bounds
MaxPollers == 2
MaxInvocations == 3
MaxStartTimers == 2
MaxQueue == 1
MaxObservers == 2
MaxCalls == 4
MaxErrorCount == 6

\* ------------------------------------------------- program constants
DefaultInterval == 8000
DefaultMaxInterval == 300000

Builds == {"src", "dist"}
Names == {"a", "b"}
Pollers == 1..MaxPollers
Callbacks == {"cb1", "cb2"}
Actions == {1, 2}
\* A config argument: an object whose fields are 0 when absent (absent and 0
\* are both falsy for ||), or no argument at all (defined = FALSE).
ConfigIntervals == {0, 1000}
ConfigMaxIntervals == {0, 1000}
Configs == [defined : {TRUE}, interval : ConfigIntervals, maxInterval : ConfigMaxIntervals]
Undefined == [defined |-> FALSE, interval |-> 0, maxInterval |-> 0]
NoFields == [defined |-> TRUE, interval |-> 0, maxInterval |-> 0]
BothFields == [defined |-> TRUE, interval |-> 2000, maxInterval |-> 1000]
CapOnly == [defined |-> TRUE, interval |-> 0, maxInterval |-> 1000]
IntervalOnly == [defined |-> TRUE, interval |-> 1000, maxInterval |-> 0]

VARIABLES
    build,        \* "src" (RxPoller.ts) or "dist" (RxPoller.js)
    pollers,      \* RxPoller._pollers: [entries: the Map's entries, props: own properties]
    exists,       \* exists[p]: instance p has been constructed
    name,         \* this._name (dist only)
    interval,     \* value of _interval$
    maxInterval,  \* value of _maxInterval$
    errorCount,   \* value of _errorCount$
    action,       \* this._action: 0 when unset, else the function given to setAction
    observers,    \* observers of the published subject, in subscription order
    connection,   \* this._connection: "noop", "live" or "disposed"
    pc,           \* "idle" (not connected), "invoking", "repeatWait", "retryWait"
    retryZips,    \* live subscriptions to _computedInterval$ inside retryWhen
    repeatZips,   \* live subscriptions to _computedInterval$ inside repeatWhen
    timers,       \* bag of pending timers
    pending,      \* promises returned by the action and not yet settled
    invCount,     \* number of invocations begun so far
    received,     \* history: what each callback was called with
    stopped,      \* history: stop() returned and start() was not called since
    abandoned,    \* history: invocations in flight when stop() was called
    expected,     \* history: the delay computed at the last settlement
    elapsed,      \* history: time passed since the last settlement
    lastGap,      \* history: <<expected, elapsed>> at the last timer-driven invocation
    calls,        \* history: number of calls made by the host so far
    lastOp        \* history: the last step taken

vars == <<build, pollers, exists, name, interval, maxInterval, errorCount, action,
          observers, connection, pc, retryZips, repeatZips, timers, pending,
          invCount, received, stopped, abandoned, expected, elapsed, lastGap, calls, lastOp>>

registryVars == <<build, pollers, exists, name>>
configVars == <<interval, maxInterval>>
engineVars == <<errorCount, connection, pc, retryZips, repeatZips, timers, pending,
                invCount, received, abandoned, expected, elapsed, lastGap>>

\* ------------------------------------------------------------ helpers
Min(a, b) == IF a <= b THEN a ELSE b

\* a || b || c on numbers: the first one that is not 0, else the last.
Or3(a, b, c) == IF a # 0 THEN a ELSE IF b # 0 THEN b ELSE c

\* Math.pow(2, n) for a count n >= 0.
RECURSIVE pow2(_)
pow2(n) == IF n = 0 THEN 1 ELSE 2 * pow2(n - 1)

Op(o, p, n, a, b, ok) == [op |-> o, p |-> p, name |-> n, a |-> a, b |-> b, ok |-> ok]

\* A call made by the host application.
Call(o, p, n, a, b, ok) ==
    /\ calls < MaxCalls
    /\ calls' = calls + 1
    /\ lastOp' = Op(o, p, n, a, b, ok)

\* A step of the event loop: a timer, a promise, the clock.
Event(o, p, n, a, b, ok) ==
    /\ calls' = calls
    /\ lastOp' = Op(o, p, n, a, b, ok)

\* Mutant of computedInterval: the delay grows by the error count, not by
\* its power of two.
computedIntervalLinear(i, errorCnt, m) == Min(i * (errorCnt + 1), m)

\* ------------------------------------------------ _computedInterval$
\* The selector given to zip.
computedInterval(i, errorCnt, m) == Min(i * pow2(errorCnt), m)

\* One subscription to _interval$.zip(_errorCount$, _maxInterval$, f): a queue
\* per source.
EmptyZip == [qi |-> <<>>, qe |-> <<>>, qm |-> <<>>]

\* A source (qi: _interval$, qe: _errorCount$, qm: _maxInterval$) hands v to
\* the subscription z: v is queued, and when every queue holds a value the
\* heads are taken off and f of them is emitted.
zipNext(z, src, v) ==
    LET q == [z EXCEPT ![src] = Append(@, v)]
    IN IF Len(q.qi) > 0 /\ Len(q.qe) > 0 /\ Len(q.qm) > 0
       THEN [zip |-> [qi |-> Tail(q.qi), qe |-> Tail(q.qe), qm |-> Tail(q.qm)],
             out |-> <<computedInterval(Head(q.qi), Head(q.qe), Head(q.qm))>>]
       ELSE [zip |-> q, out |-> <<>>]

\* A subject's onNext(v) as seen by every live zip subscription of zs.
zipsAfter(zs, src, v) == [k \in DOMAIN zs |-> zipNext(zs[k], src, v).zip]

RECURSIVE zipsOut(_, _, _)
zipsOut(zs, src, v) ==
    IF zs = <<>> THEN <<>>
    ELSE zipNext(Head(zs), src, v).out \o zipsOut(Tail(zs), src, v)

\* A new subscription: each BehaviorSubject replays its current value on
\* subscribe, in the order the sources are given to zip.
zipSubscribe(i, e, m) ==
    LET a == zipNext(EmptyZip, "qi", i)
        b == zipNext(a.zip, "qe", e)
        c == zipNext(b.zip, "qm", m)
    IN [zip |-> c.zip, out |-> a.out \o b.out \o c.out]

\* flatMap(interval => Observable.timer(interval)): one timer per delay.
RECURSIVE timersOf(_, _)
timersOf(kind, ds) ==
    IF ds = <<>> THEN EmptyBag
    ELSE SetToBag({[kind |-> kind, rem |-> Head(ds)]}) (+) timersOf(kind, Tail(ds))

\* The timers of b whose kind is not in kinds (the others are disposed).
withoutKinds(b, kinds) ==
    LET keep == {t \in DOMAIN b : t.kind \notin kinds}
    IN [t \in keep |-> b[t]]

timerCount(b, kind) ==
    LET some == {t \in DOMAIN b : t.kind = kind}
    IN BagCardinality([t \in some |-> b[t]])

\* ----------------------------------------------- one poller's state
Poller(p) ==
    [interval |-> interval[p], maxInterval |-> maxInterval[p],
     errorCount |-> errorCount[p], action |-> action[p],
     observers |-> observers[p], connection |-> connection[p], pc |-> pc[p],
     retryZips |-> retryZips[p], repeatZips |-> repeatZips[p],
     timers |-> timers[p], pending |-> pending[p], invCount |-> invCount[p],
     received |-> received[p], stopped |-> stopped[p],
     abandoned |-> abandoned[p], expected |-> expected[p],
     elapsed |-> elapsed[p], lastGap |-> lastGap[p]]

\* Mutant of Put: the error count is one value shared by all pollers.
PutShared(p, s) ==
    /\ interval' = [interval EXCEPT ![p] = s.interval]
    /\ maxInterval' = [maxInterval EXCEPT ![p] = s.maxInterval]
    /\ errorCount' = [q \in Pollers |-> s.errorCount]
    /\ action' = [action EXCEPT ![p] = s.action]
    /\ observers' = [observers EXCEPT ![p] = s.observers]
    /\ connection' = [connection EXCEPT ![p] = s.connection]
    /\ pc' = [pc EXCEPT ![p] = s.pc]
    /\ retryZips' = [retryZips EXCEPT ![p] = s.retryZips]
    /\ repeatZips' = [repeatZips EXCEPT ![p] = s.repeatZips]
    /\ timers' = [timers EXCEPT ![p] = s.timers]
    /\ pending' = [pending EXCEPT ![p] = s.pending]
    /\ invCount' = [invCount EXCEPT ![p] = s.invCount]
    /\ received' = [received EXCEPT ![p] = s.received]
    /\ stopped' = [stopped EXCEPT ![p] = s.stopped]
    /\ abandoned' = [abandoned EXCEPT ![p] = s.abandoned]
    /\ expected' = [expected EXCEPT ![p] = s.expected]
    /\ elapsed' = [elapsed EXCEPT ![p] = s.elapsed]
    /\ lastGap' = [lastGap EXCEPT ![p] = s.lastGap]

Put(p, s) ==
    /\ interval' = [interval EXCEPT ![p] = s.interval]
    /\ maxInterval' = [maxInterval EXCEPT ![p] = s.maxInterval]
    /\ errorCount' = [errorCount EXCEPT ![p] = s.errorCount]
    /\ action' = [action EXCEPT ![p] = s.action]
    /\ observers' = [observers EXCEPT ![p] = s.observers]
    /\ connection' = [connection EXCEPT ![p] = s.connection]
    /\ pc' = [pc EXCEPT ![p] = s.pc]
    /\ retryZips' = [retryZips EXCEPT ![p] = s.retryZips]
    /\ repeatZips' = [repeatZips EXCEPT ![p] = s.repeatZips]
    /\ timers' = [timers EXCEPT ![p] = s.timers]
    /\ pending' = [pending EXCEPT ![p] = s.pending]
    /\ invCount' = [invCount EXCEPT ![p] = s.invCount]
    /\ received' = [received EXCEPT ![p] = s.received]
    /\ stopped' = [stopped EXCEPT ![p] = s.stopped]
    /\ abandoned' = [abandoned EXCEPT ![p] = s.abandoned]
    /\ expected' = [expected EXCEPT ![p] = s.expected]
    /\ elapsed' = [elapsed EXCEPT ![p] = s.elapsed]
    /\ lastGap' = [lastGap EXCEPT ![p] = s.lastGap]

\* ------------------------------------------------------- _poller$
\* Mutant of onError: the notifier computes the delay and sets no timer.
onErrorSetsNoTimer(s) ==
    LET e == s.errorCount + 1
        new == zipSubscribe(s.interval, e, s.maxInterval)
    IN [s EXCEPT !.errorCount = e,
                 !.retryZips = Append(zipsAfter(s.retryZips, "qe", e), new.zip),
                 !.repeatZips = <<>>,
                 !.timers = withoutKinds(@, {"repeat", "retry"}),
                 !.pc = "retryWait",
                 !.expected = new.out[1],
                 !.elapsed = 0]

\* Mutant of onError: the failure is passed on to the observers.
onErrorDelivers(s) ==
    LET e == s.errorCount + 1
        old == zipsOut(s.retryZips, "qe", e)
        new == zipSubscribe(s.interval, e, s.maxInterval)
    IN [s EXCEPT !.errorCount = e,
                 !.received = @ \o [k \in 1..Len(s.observers) |->
                                      [cb |-> s.observers[k], inv |-> s.invCount]],
                 !.retryZips = Append(zipsAfter(s.retryZips, "qe", e), new.zip),
                 !.repeatZips = <<>>,
                 !.timers = withoutKinds(@, {"repeat"}) (+) timersOf("retry", old \o new.out),
                 !.pc = "retryWait",
                 !.expected = new.out[1],
                 !.elapsed = 0]

\* retryWhen: the source failed.  The notifier chain runs
\* do(errorCount + 1), flatMap(_computedInterval$), flatMap(timer); the failed
\* subscription to the repeatWhen source is disposed with its own notifier
\* chain, and the loop waits for the retry notifier.
onError(s) ==
    LET e == s.errorCount + 1
        old == zipsOut(s.retryZips, "qe", e)
        new == zipSubscribe(s.interval, e, s.maxInterval)
    IN [s EXCEPT !.errorCount = e,
                 !.retryZips = Append(zipsAfter(s.retryZips, "qe", e), new.zip),
                 !.repeatZips = <<>>,
                 !.timers = withoutKinds(@, {"repeat"}) (+) timersOf("retry", old \o new.out),
                 !.pc = "retryWait",
                 !.expected = new.out[1],
                 !.elapsed = 0]

\* Mutant of deliver: only the first observer is called.
deliverFirst(obs, inv) ==
    IF obs = <<>> THEN <<>> ELSE <<[cb |-> Head(obs), inv |-> inv]>>

\* The value x of invocation inv reaches every observer of the subject.
RECURSIVE deliver(_, _)
deliver(obs, inv) ==
    IF obs = <<>> THEN <<>>
    ELSE <<[cb |-> Head(obs), inv |-> inv]>> \o deliver(Tail(obs), inv)

\* Mutant of onCompleted: the error count is not reset.
onCompletedKeepsCount(s, inv) ==
    LET e == s.errorCount
        oldRetry == zipsOut(s.retryZips, "qe", e)
        oldRepeat == zipsOut(s.repeatZips, "qe", e)
        new == zipSubscribe(s.interval, e, s.maxInterval)
    IN [s EXCEPT !.received = @ \o deliver(s.observers, inv),
                 !.retryZips = zipsAfter(@, "qe", e),
                 !.repeatZips = Append(zipsAfter(@, "qe", e), new.zip),
                 !.timers = @ (+) timersOf("retry", oldRetry)
                              (+) timersOf("repeat", oldRepeat \o new.out),
                 !.pc = "repeatWait",
                 !.expected = new.out[1],
                 !.elapsed = 0]

\* repeatWhen: the promise resolved; its value is passed on, then the source
\* completes.  The notifier chain runs do(errorCount = 0),
\* flatMap(_computedInterval$), flatMap(timer), and the loop waits for the
\* repeat notifier.
onCompleted(s, inv) ==
    LET oldRetry == zipsOut(s.retryZips, "qe", 0)
        oldRepeat == zipsOut(s.repeatZips, "qe", 0)
        new == zipSubscribe(s.interval, 0, s.maxInterval)
    IN [s EXCEPT !.received = @ \o deliver(s.observers, inv),
                 !.errorCount = 0,
                 !.retryZips = zipsAfter(@, "qe", 0),
                 !.repeatZips = Append(zipsAfter(@, "qe", 0), new.zip),
                 !.timers = @ (+) timersOf("retry", oldRetry)
                              (+) timersOf("repeat", oldRepeat \o new.out),
                 !.pc = "repeatWait",
                 !.expected = new.out[1],
                 !.elapsed = 0]

\* What this._action() gives fromPromise: a promise only when a function
\* was set and the wrapper calls it (dist: () => fn()).  The src wrapper
\* () => fn returns the function itself, which has no then; with no action
\* set the call itself throws.
returnsPromise(a) == a # 0 /\ build = "dist"

\* Mutant of fromPromise: every invocation runs the first action, whatever
\* the current one is.
fromPromiseFirstAction(s) ==
    LET inv == s.invCount + 1
        t == [s EXCEPT !.invCount = inv]
    IN IF returnsPromise(s.action)
       THEN [t EXCEPT !.pc = "invoking",
                      !.pending = @ \cup {[inv |-> inv, act |-> 1, attached |-> TRUE]}]
       ELSE onError(t)

\* A subscription to Observable.fromPromise(() => this._action()): one
\* invocation.  Without a promise the subscription fails at once.
fromPromise(s) ==
    LET inv == s.invCount + 1
        t == [s EXCEPT !.invCount = inv]
    IN IF returnsPromise(s.action)
       THEN [t EXCEPT !.pc = "invoking",
                      !.pending = @ \cup {[inv |-> inv, act |-> s.action, attached |-> TRUE]}]
       ELSE onError(t)

\* _poller$.connect(): subscribes the subject to the source unless a
\* connection is live, and returns the live connection.
connect(s) ==
    IF s.pc = "idle"
    THEN fromPromise([s EXCEPT !.connection = "live", !.retryZips = <<>>,
                               !.repeatZips = <<>>])
    ELSE [s EXCEPT !.connection = "live"]

\* Mutant of dispose: disposing the connection also drops the observers of
\* the subject.
disposeUnsubscribes(s) ==
    [s EXCEPT !.connection = "disposed",
              !.pc = "idle",
              !.observers = <<>>,
              !.retryZips = <<>>,
              !.repeatZips = <<>>,
              !.timers = withoutKinds(@, {"retry", "repeat"}),
              !.pending = {[pr EXCEPT !.attached = FALSE] : pr \in @},
              !.abandoned = @ \cup {pr.inv : pr \in {x \in s.pending : x.attached}}]

\* Mutant of dispose: disposing the connection also resets the error count.
disposeResets(s) ==
    [s EXCEPT !.connection = "disposed",
              !.pc = "idle",
              !.errorCount = 0,
              !.retryZips = <<>>,
              !.repeatZips = <<>>,
              !.timers = withoutKinds(@, {"retry", "repeat"}),
              !.pending = {[pr EXCEPT !.attached = FALSE] : pr \in @},
              !.abandoned = @ \cup {pr.inv : pr \in {x \in s.pending : x.attached}}]

\* Disposing the live connection: the notifier chains, their zip
\* subscriptions and timers, and the subscription to the promise go.  The
\* promise itself cannot be cancelled.
dispose(s) ==
    [s EXCEPT !.connection = "disposed",
              !.pc = "idle",
              !.retryZips = <<>>,
              !.repeatZips = <<>>,
              !.timers = withoutKinds(@, {"retry", "repeat"}),
              !.pending = {[pr EXCEPT !.attached = FALSE] : pr \in @},
              !.abandoned = @ \cup {pr.inv : pr \in {x \in s.pending : x.attached}}]

\* A timer of kind "start" is the one start() sets; "retry" and "repeat"
\* timers feed the notifier of retryWhen and of repeatWhen.  A notifier
\* is listened to only between a settlement and the next invocation.
invokes(s, t) ==
    \/ t.kind = "start" /\ s.pc = "idle"
    \/ t.kind = "retry" /\ s.pc = "retryWait"
    \/ t.kind = "repeat" /\ s.pc = "repeatWait"

timerFires(s, t) ==
    LET u == [s EXCEPT !.timers = @ (-) SetToBag({t})]
        next == [u EXCEPT !.lastGap = <<s.expected, s.elapsed>>]
    IN IF t.kind = "start" THEN connect(u)
       ELSE IF invokes(s, t) THEN fromPromise(next)
       ELSE u

\* Mutant of settle: a disposed subscription still hears its promise.
settleHeard(s, pr, ok) ==
    LET u == [s EXCEPT !.pending = @ \ {pr}]
    IN IF ok THEN onCompleted(u, pr.inv) ELSE onError(u)

\* The promise pr settles.  A promise whose subscription was disposed is
\* heard by nobody.
settle(s, pr, ok) ==
    LET u == [s EXCEPT !.pending = @ \ {pr}]
    IN IF ~pr.attached THEN u
       ELSE IF ok THEN onCompleted(u, pr.inv)
       ELSE onError(u)

\* Mutant of applyConfig: a field the config leaves out falls back to its
\* default instead of keeping its value.
applyConfigResets(s, config) ==
    LET i == Or3(config.interval, 0, DefaultInterval)
        m == Or3(config.maxInterval, 0, DefaultMaxInterval)
        r1 == zipsAfter(s.retryZips, "qi", i)
        p1 == zipsAfter(s.repeatZips, "qi", i)
        retryOut == zipsOut(s.retryZips, "qi", i) \o zipsOut(r1, "qm", m)
        repeatOut == zipsOut(s.repeatZips, "qi", i) \o zipsOut(p1, "qm", m)
    IN [s EXCEPT !.interval = i,
                 !.maxInterval = m,
                 !.retryZips = zipsAfter(r1, "qm", m),
                 !.repeatZips = zipsAfter(p1, "qm", m),
                 !.timers = @ (+) timersOf("retry", retryOut)
                              (+) timersOf("repeat", repeatOut)]

\* ---------------------------------------------------------- setConfig
\* _interval$.onNext(...) then _maxInterval$.onNext(...): the subjects hand
\* the values to every live zip subscription.
applyConfig(s, config) ==
    LET i == Or3(config.interval, s.interval, DefaultInterval)
        m == Or3(config.maxInterval, s.maxInterval, DefaultMaxInterval)
        r1 == zipsAfter(s.retryZips, "qi", i)
        p1 == zipsAfter(s.repeatZips, "qi", i)
        retryOut == zipsOut(s.retryZips, "qi", i) \o zipsOut(r1, "qm", m)
        repeatOut == zipsOut(s.repeatZips, "qi", i) \o zipsOut(p1, "qm", m)
    IN [s EXCEPT !.interval = i,
                 !.maxInterval = m,
                 !.retryZips = zipsAfter(r1, "qm", m),
                 !.repeatZips = zipsAfter(p1, "qm", m),
                 !.timers = @ (+) timersOf("retry", retryOut)
                              (+) timersOf("repeat", repeatOut)]

\* ----------------------------------------------------------- registry
\* RxPoller._pollers is a Map: entries[n] = 0 when the Map has no entry n.
getPollerIn(reg, n) == reg.entries[n]

\* Mutant of setPoller: a registered name is silently replaced.
setPollerReplaces(reg, n, p) ==
    [threw |-> FALSE, reg |-> [reg EXCEPT !.entries[n] = p]]

setPoller(reg, n, p) ==
    IF getPollerIn(reg, n) # 0
    THEN [threw |-> TRUE, reg |-> reg]
    ELSE [threw |-> FALSE, reg |-> [reg EXCEPT !.entries[n] = p]]

\* delete this._pollers[name]: removes the own property name of the Map
\* object; the Map's entries are not properties.
removePoller(reg, n) == [reg EXCEPT !.props = @ \ {n}]

\* The field initialisers of the class.
InitialMaxInterval == IF build = "src" THEN DefaultInterval ELSE 0

\* ------------------------------------------------------------- actions
\* new RxPoller(n, config)
create(n, config) ==
    /\ \E p \in Pollers :
        /\ ~exists[p]
        /\ \A q \in Pollers : q < p => exists[q]
        /\ LET set == setPoller(pollers, n, p)
               ok == config.defined /\ ~set.threw
           IN /\ Call("create", p, n, config.interval, config.maxInterval, ok)
              /\ IF ok
                 THEN /\ Put(p, applyConfig(Poller(p), config))
                      /\ exists' = [exists EXCEPT ![p] = TRUE]
                      /\ name' = [name EXCEPT ![p] = IF build = "dist" THEN n ELSE @]
                      /\ pollers' = set.reg
                 ELSE UNCHANGED <<pollers, exists, name, configVars, engineVars,
                                  action, observers, stopped>>
    /\ UNCHANGED build

\* RxPoller.getPoller(n)
getPoller(n) ==
    /\ Call("getPoller", getPollerIn(pollers, n), n, 0, 0, getPollerIn(pollers, n) # 0)
    /\ UNCHANGED <<registryVars, configVars, engineVars, action, observers, stopped>>

setAction(p, fn) ==
    /\ exists[p]
    /\ Put(p, [Poller(p) EXCEPT !.action = fn])
    /\ Call("setAction", p, "", fn, 0, TRUE)
    /\ UNCHANGED registryVars

setConfig(p, config) ==
    /\ exists[p]
    /\ config.defined
    /\ \A k \in DOMAIN retryZips[p] : Len(retryZips[p][k].qi) < MaxQueue
    /\ \A k \in DOMAIN repeatZips[p] : Len(repeatZips[p][k].qi) < MaxQueue
    /\ Put(p, applyConfig(Poller(p), config))
    /\ Call("setConfig", p, "", config.interval, config.maxInterval, TRUE)
    /\ UNCHANGED registryVars

subscribe(p, cb) ==
    /\ exists[p]
    /\ Len(observers[p]) < MaxObservers
    /\ Put(p, [Poller(p) EXCEPT !.observers = Append(@, cb)])
    /\ Call("subscribe", p, cb, 0, 0, TRUE)
    /\ UNCHANGED registryVars

\* Mutant of start: the first delay is the backoff-adjusted one.
startBackoff(p, forceStart) ==
    /\ exists[p]
    /\ timerCount(timers[p], "start") < MaxStartTimers
    /\ LET due == IF forceStart THEN 0
                  ELSE computedInterval(interval[p], errorCount[p], maxInterval[p])
       IN Put(p, [Poller(p) EXCEPT !.timers = @ (+) SetToBag({[kind |-> "start", rem |-> due]}),
                                   !.stopped = FALSE])
    /\ Call("start", p, "", IF forceStart THEN 1 ELSE 0, 0, TRUE)
    /\ UNCHANGED registryVars

\* Observable.timer(forceStart ? 0 : interval).subscribe(connect)
start(p, forceStart) ==
    /\ exists[p]
    /\ timerCount(timers[p], "start") < MaxStartTimers
    /\ LET due == IF forceStart THEN 0 ELSE interval[p]
       IN Put(p, [Poller(p) EXCEPT !.timers = @ (+) SetToBag({[kind |-> "start", rem |-> due]}),
                                   !.stopped = FALSE])
    /\ Call("start", p, "", IF forceStart THEN 1 ELSE 0, 0, TRUE)
    /\ UNCHANGED registryVars

\* this._connection.dispose()
connectionDispose(s) ==
    [(IF s.connection = "live" THEN dispose(s) ELSE s) EXCEPT !.stopped = TRUE]

stop(p) ==
    /\ exists[p]
    /\ Put(p, connectionDispose(Poller(p)))
    /\ Call("stop", p, "", 0, 0, TRUE)
    /\ UNCHANGED registryVars

\* dist only: this.stop(); RxPoller.removePoller(this._name)
destroy(p) ==
    /\ exists[p]
    /\ build = "dist"
    /\ Put(p, connectionDispose(Poller(p)))
    /\ pollers' = removePoller(pollers, name[p])
    /\ Call("destroy", p, name[p], 0, 0, TRUE)
    /\ UNCHANGED <<build, exists, name>>

TimerFires(p, t) ==
    /\ t \in DOMAIN timers[p]
    /\ t.rem = 0
    /\ invokes(Poller(p), t) => invCount[p] < MaxInvocations
    /\ \E s \in {timerFires(Poller(p), t)} : Put(p, s)
    /\ Event("fire", p, t.kind, 0, 0, invokes(Poller(p), t))
    /\ UNCHANGED registryVars

PromiseSettles(p, pr, ok) ==
    /\ pr \in pending[p]
    /\ \E s \in {settle(Poller(p), pr, ok)} : Put(p, s)
    /\ Event("settle", p, "", pr.inv, 0, ok)
    /\ UNCHANGED registryVars

allTimers == UNION {DOMAIN timers[p] : p \in Pollers}

shift(b, d) ==
    LET moved == {[t EXCEPT !.rem = @ - d] : t \in DOMAIN b}
    IN [t \in moved |-> b[[t EXCEPT !.rem = @ + d]]]

waiting(p) == pc[p] \in {"repeatWait", "retryWait"}

\* d milliseconds pass, up to the next deadline; no timer is overdue.
TimePasses(d) ==
    /\ d > 0
    /\ \A t \in allTimers : d <= t.rem
    /\ timers' = [p \in Pollers |-> shift(timers[p], d)]
    /\ elapsed' = [p \in Pollers |-> IF waiting(p) THEN elapsed[p] + d ELSE elapsed[p]]
    /\ Event("time", 0, "", d, 0, TRUE)
    /\ UNCHANGED <<registryVars, configVars, errorCount, action, observers, connection,
                   pc, retryZips, repeatZips, pending, invCount, received, stopped,
                   abandoned, expected, lastGap>>

\* A poller's fields as the class initialises them.
Fresh ==
    [interval |-> 0, maxInterval |-> InitialMaxInterval, errorCount |-> 0,
     action |-> 0, observers |-> <<>>, connection |-> "noop", pc |-> "idle",
     retryZips |-> <<>>, repeatZips |-> <<>>, timers |-> EmptyBag,
     pending |-> {}, invCount |-> 0, received |-> <<>>, stopped |-> FALSE,
     abandoned |-> {}, expected |-> 0, elapsed |-> 0, lastGap |-> <<0, 0>>]

NoPollers == [entries |-> [n \in Names |-> 0], props |-> {}]

\* The pollers' fields: those of first for the pollers of made, fresh ones
\* for the rest.
FieldsOf(made, first) ==
    LET f(p) == IF p \in made THEN first ELSE Fresh
    IN /\ interval = [p \in Pollers |-> f(p).interval]
       /\ maxInterval = [p \in Pollers |-> f(p).maxInterval]
       /\ errorCount = [p \in Pollers |-> f(p).errorCount]
       /\ action = [p \in Pollers |-> f(p).action]
       /\ observers = [p \in Pollers |-> f(p).observers]
       /\ connection = [p \in Pollers |-> f(p).connection]
       /\ pc = [p \in Pollers |-> f(p).pc]
       /\ retryZips = [p \in Pollers |-> f(p).retryZips]
       /\ repeatZips = [p \in Pollers |-> f(p).repeatZips]
       /\ timers = [p \in Pollers |-> f(p).timers]
       /\ pending = [p \in Pollers |-> f(p).pending]
       /\ invCount = [p \in Pollers |-> f(p).invCount]
       /\ received = [p \in Pollers |-> f(p).received]
       /\ stopped = [p \in Pollers |-> f(p).stopped]
       /\ abandoned = [p \in Pollers |-> f(p).abandoned]
       /\ expected = [p \in Pollers |-> f(p).expected]
       /\ elapsed = [p \in Pollers |-> f(p).elapsed]
       /\ lastGap = [p \in Pollers |-> f(p).lastGap]

\* The pollers' fields: those of first for poller 1, fresh ones for the rest.
Fields(first) == FieldsOf({1}, first)

\* The class as loaded, before any poller is constructed.
InitRegistry ==
    /\ build \in Builds
    /\ pollers = NoPollers
    /\ exists = [p \in Pollers |-> FALSE]
    /\ name = [p \in Pollers |-> ""]
    /\ Fields(Fresh)
    /\ calls = 0
    /\ lastOp = Op("init", 0, "", 0, 0, TRUE)

\* Poller 1 is registered as "a" and no other poller exists.
OnlyA ==
    /\ pollers = setPoller(NoPollers, "a", 1).reg
    /\ exists = [p \in Pollers |-> p = 1]
    /\ name = [p \in Pollers |-> IF p = 1 /\ build = "dist" THEN "a" ELSE ""]

\* After new RxPoller("a", config).
Init ==
    /\ build \in Builds
    /\ OnlyA
    /\ \E config \in {NoFields, BothFields} :
        /\ Fields(applyConfig(Fresh, config))
        /\ lastOp = Op("create", 1, "a", config.interval, config.maxInterval, TRUE)
    /\ calls = 0

\* Steps of the event loop.
Loop ==
    \/ \E p \in Pollers : \E t \in DOMAIN timers[p] : TimerFires(p, t)
    \/ \E p \in Pollers : \E pr \in pending[p], ok \in BOOLEAN : PromiseSettles(p, pr, ok)
    \/ \E d \in {t.rem : t \in allTimers} : TimePasses(d)

\* One poller, "a", and everything that bears on its schedule.
Next ==
    \/ \E p \in Pollers : setAction(p, 1)
    \/ \E p \in Pollers : setConfig(p, CapOnly)
    \/ \E p \in Pollers : subscribe(p, "cb1")
    \/ \E p \in Pollers, forceStart \in BOOLEAN : start(p, forceStart)
    \/ \E p \in Pollers : stop(p)
    \/ Loop

Spec == Init /\ [][Next]_vars

\* The registry: several names, construction, lookup and destruction of
\* pollers that may be running.
NextRegistry ==
    \/ \E n \in Names, config \in {Undefined, NoFields, BothFields} : create(n, config)
    \/ \E n \in Names : getPoller(n)
    \/ \E p \in Pollers : setAction(p, 1)
    \/ \E p \in Pollers : start(p, TRUE)
    \/ \E p \in Pollers : stop(p)
    \/ \E p \in Pollers : destroy(p)
    \/ Loop

SpecRegistry == InitRegistry /\ [][NextRegistry]_vars

\* Reconfiguration of a constructed poller while it runs and while it is
\* stopped.
NextConfig ==
    \/ \E p \in Pollers : setAction(p, 1)
    \/ \E p \in Pollers, config \in Configs : setConfig(p, config)
    \/ \E p \in Pollers : start(p, TRUE)
    \/ \E p \in Pollers : stop(p)
    \/ Loop

SpecConfig == Init /\ [][NextConfig]_vars

\* Starting, stopping and restarting a poller whose interval is changed
\* between the calls.
NextStart ==
    \/ \E p \in Pollers : setAction(p, 1)
    \/ \E p \in Pollers : setConfig(p, IntervalOnly)
    \/ \E p \in Pollers, forceStart \in BOOLEAN : start(p, forceStart)
    \/ \E p \in Pollers : stop(p)
    \/ Loop

SpecStart == Init /\ [][NextStart]_vars

\* Several callbacks subscribed before and while the poller runs.
NextDelivery ==
    \/ \E p \in Pollers : setAction(p, 1)
    \/ \E p \in Pollers, cb \in Callbacks : subscribe(p, cb)
    \/ \E p \in Pollers : start(p, TRUE)
    \/ \E p \in Pollers : stop(p)
    \/ Loop

SpecDelivery == Init /\ [][NextDelivery]_vars

\* The action is replaced while the poller runs.
NextAction ==
    \/ \E p \in Pollers, fn \in Actions : setAction(p, fn)
    \/ \E p \in Pollers : start(p, TRUE)
    \/ \E p \in Pollers : stop(p)
    \/ Loop

SpecAction == Init /\ [][NextAction]_vars

\* After new RxPoller("a", {}) and new RxPoller("b", {}).
InitPair ==
    /\ build \in Builds
    /\ pollers = setPoller(setPoller(NoPollers, "a", 1).reg, "b", 2).reg
    /\ exists = [p \in Pollers |-> p <= 2]
    /\ name = [p \in Pollers |-> IF build = "dist"
                                 THEN (IF p = 1 THEN "a" ELSE IF p = 2 THEN "b" ELSE "")
                                 ELSE ""]
    /\ FieldsOf({1, 2}, applyConfig(Fresh, NoFields))
    /\ lastOp = Op("create", 2, "b", 0, 0, TRUE)
    /\ calls = 0

\* Two pollers used side by side: poller 1 is started, reconfigured and
\* stopped and has no action, so that it only fails; poller 2 is given an
\* action and a subscriber and started.
NextPair ==
    \/ setAction(2, 1)
    \/ setConfig(1, CapOnly)
    \/ subscribe(2, "cb1")
    \/ \E p \in Pollers : start(p, TRUE)
    \/ stop(1)
    \/ Loop

SpecPair == InitPair /\ [][NextPair]_vars

\* After new RxPoller("a", {}), setAction(fn) and subscribe(cb1).
InitSubscribed ==
    /\ build \in Builds
    /\ OnlyA
    /\ FieldsOf({1}, [applyConfig(Fresh, NoFields) EXCEPT !.action = 1,
                                                          !.observers = <<"cb1">>])
    /\ lastOp = Op("subscribe", 1, "cb1", 0, 0, TRUE)
    /\ calls = 0

\* A subscribed poller that is started, stopped and started again.
NextRestart ==
    \/ \E p \in Pollers : start(p, TRUE)
    \/ \E p \in Pollers : stop(p)
    \/ Loop

SpecRestart == InitSubscribed /\ [][NextRestart]_vars

\* A poller that is started and never stopped.  The event loop runs every
\* timer that is due, every promise settles in the end, and time goes on.
NextLive ==
    \/ \E p \in Pollers : setAction(p, 1)
    \/ \E p \in Pollers : start(p, TRUE)
    \/ Loop

Fairness ==
    /\ WF_vars(\E p \in Pollers : \E t \in DOMAIN timers[p] : TimerFires(p, t))
    /\ WF_vars(\E p \in Pollers : \E pr \in pending[p], ok \in BOOLEAN : PromiseSettles(p, pr, ok))
    /\ WF_vars(\E d \in {t.rem : t \in allTimers} : TimePasses(d))

SpecLive == Init /\ [][NextLive]_vars /\ Fairness

\* The backoff computation alone: a poller with any interval, maxInterval
\* and error count, and subscriptions to _computedInterval$.
CalcIntervals == {1000, 2000, 8000}
CalcMaxIntervals == {1000, 4000, 8000, 300000}

\* A subscription to _computedInterval$ under the current values of the
\* three subjects; the value it emits is kept in expected.
compute(p) ==
    /\ exists[p]
    /\ Put(p, [Poller(p) EXCEPT !.expected =
                   zipSubscribe(interval[p], errorCount[p], maxInterval[p]).out[1]])
    /\ Event("compute", p, "", 0, 0, TRUE)
    /\ UNCHANGED registryVars

\* _errorCount$.onNext(_errorCount$.getValue() + 1)
countError(p) ==
    /\ exists[p]
    /\ errorCount[p] < MaxErrorCount
    /\ Put(p, [Poller(p) EXCEPT !.errorCount = @ + 1])
    /\ Event("countError", p, "", 0, 0, TRUE)
    /\ UNCHANGED registryVars

InitCalc ==
    /\ build \in Builds
    /\ OnlyA
    /\ \E i \in CalcIntervals, m \in CalcMaxIntervals, e \in 0..MaxErrorCount :
        Fields([Fresh EXCEPT !.interval = i, !.maxInterval = m, !.errorCount = e])
    /\ calls = 0
    /\ lastOp = Op("init", 0, "", 0, 0, TRUE)

NextCalc ==
    \/ \E p \in Pollers : compute(p)
    \/ \E p \in Pollers : countError(p)

SpecCalc == InitCalc /\ [][NextCalc]_vars

\* ------------------------------------------------------------- claims

\* C1: at most one invocation of a poller's action is in flight at any time.
OneInFlight == \A p \in Pollers : Cardinality(pending[p]) <= 1

\* C2: once stop() has returned, no invocation begins until start is called
\* again.
NoInvocationAfterStop ==
    [][\A p \in Pollers : stopped[p] /\ stopped'[p] => pending'[p] \subseteq pending[p]]_vars

\* The step settles an invocation of p that was in flight when stop() was
\* called.
LateSettlement(p) ==
    /\ lastOp'.op = "settle"
    /\ lastOp'.p = p
    /\ lastOp'.a \in abandoned[p]

\* C3: the settlement of an invocation that was in flight when stop() was
\* called changes no errorCount, delivers nothing and schedules nothing.
LateSettlementDiscarded ==
    [][\A p \in Pollers : LateSettlement(p) =>
          /\ errorCount'[p] = errorCount[p]
          /\ received'[p] = received[p]
          /\ timers'[p] = timers[p]
          /\ invCount'[p] = invCount[p]
          /\ pc'[p] = pc[p]
          /\ retryZips'[p] = retryZips[p]
          /\ repeatZips'[p] = repeatZips[p]]_vars

\* C3 witness: an invocation abandoned by stop() has resolved, with an
\* observer subscribed.
LateSettlementSeen ==
    \E p \in Pollers :
        /\ lastOp.op = "settle"
        /\ lastOp.p = p
        /\ lastOp.ok
        /\ lastOp.a \in abandoned[p]
        /\ observers[p] # <<>>

\* The least element of a non-empty set of numbers.
Least(S) == CHOOSE x \in S : \A y \in S : x <= y

\* C4: with maxInterval >= interval the computed delay is
\* min(interval * 2^errorCount, maxInterval), and it does not decrease as
\* the error count grows.
BackoffDelay ==
    \A p \in Pollers :
        (lastOp.op = "compute" /\ lastOp.p = p /\ maxInterval[p] >= interval[p]) =>
            /\ expected[p] = Least({interval[p] * 2^errorCount[p], maxInterval[p]})
            /\ \A e \in 0..errorCount[p] :
                   computedInterval(interval[p], e, maxInterval[p]) <= expected[p]

\* C4 witness: a delay computed after two errors or more and cut down to
\* maxInterval.
BackoffDelayCapped ==
    \E p \in Pollers :
        /\ lastOp.op = "compute"
        /\ lastOp.p = p
        /\ errorCount[p] >= 2
        /\ maxInterval[p] > interval[p]
        /\ interval[p] * 2^errorCount[p] > maxInterval[p]
        /\ expected[p] = maxInterval[p]

\* C5: every invocation the loop begins comes exactly the computed backoff
\* delay after the settlement before it.
GapIsBackoffDelay ==
    \A p \in Pollers : returnsPromise(action[p]) => lastGap[p][2] = lastGap[p][1]

\* The last step was the resolution of an invocation the loop was waiting for.
Succeeded(p) ==
    /\ lastOp.op = "settle"
    /\ lastOp.p = p
    /\ lastOp.ok
    /\ lastOp.a \notin abandoned[p]

\* C6 as claimed: after a success errorCount is 0 and the delay computed
\* for the next invocation is the configured interval.
DelayAfterSuccessIsInterval ==
    \A p \in Pollers : Succeeded(p) => errorCount[p] = 0 /\ expected[p] = interval[p]

\* C6 as amended: after a success errorCount is 0 and the delay computed
\* from the current configuration is the smaller of interval and
\* maxInterval, and a repeat timer of that delay is pending.
DelayAfterSuccessIsMin ==
    \A p \in Pollers : Succeeded(p) =>
        /\ errorCount[p] = 0
        /\ expected[p] = (IF interval[p] <= maxInterval[p] THEN interval[p] ELSE maxInterval[p])
        /\ [kind |-> "repeat", rem |-> expected[p]] \in DOMAIN timers[p]

\* C6 witness: a success that follows a failure, under a configuration with
\* maxInterval >= interval.
SuccessAfterFailure ==
    \E p \in Pollers :
        /\ Succeeded(p)
        /\ lastOp.a > 1
        /\ maxInterval[p] >= interval[p]
        /\ expected[p] = interval[p]

\* C7: a poller constructed with a config that sets neither field has
\* interval 8000 and maxInterval 300000.
DefaultsApply ==
    \A p \in Pollers :
        (lastOp.op = "create" /\ lastOp.ok /\ lastOp.p = p /\ lastOp.a = 0 /\ lastOp.b = 0)
            => interval[p] = 8000 /\ maxInterval[p] = 300000

\* C8: setConfig replaces a field when the value given is not 0 and leaves
\* it as it was otherwise.
SetConfigMerges ==
    [][\A p \in Pollers : (lastOp'.op = "setConfig" /\ lastOp'.p = p) =>
          /\ interval'[p] = (IF lastOp'.a # 0 THEN lastOp'.a ELSE interval[p])
          /\ maxInterval'[p] = (IF lastOp'.b # 0 THEN lastOp'.b ELSE maxInterval[p])]_vars

\* C8 witness: setConfig({interval: 1000}) on a poller whose maxInterval was
\* set to 1000 and whose interval was 2000.
PartialUpdateSeen ==
    \E p \in Pollers :
        /\ lastOp.op = "setConfig"
        /\ lastOp.p = p
        /\ lastOp.a = 1000
        /\ lastOp.b = 0
        /\ interval[p] = 1000
        /\ maxInterval[p] = 1000

\* C9: constructing a poller under a registered name fails and changes
\* neither the registry nor any poller.
DuplicateNameRejected ==
    [][(lastOp'.op = "create" /\ pollers.entries[lastOp'.name] # 0) =>
          /\ ~lastOp'.ok
          /\ pollers' = pollers
          /\ exists' = exists
          /\ interval' = interval
          /\ maxInterval' = maxInterval
          /\ connection' = connection
          /\ pc' = pc
          /\ timers' = timers]_vars

\* C9 witness: a construction with a config object failed on a registered
\* name, and the first poller is still the one getPoller returns.
DuplicateNameSeen ==
    /\ lastOp.op = "create"
    /\ ~lastOp.ok
    /\ lastOp.a # 0
    /\ getPollerIn(pollers, lastOp.name) = 1
    /\ interval[1] = DefaultInterval

\* C10: after destroy() the name is free: getPoller reports not-found.
DestroyFreesName ==
    lastOp.op = "destroy" => getPollerIn(pollers, lastOp.name) = 0

\* The timers start() has set and that have not fired yet.
startTimers(b) == withoutKinds(b, {"retry", "repeat"})

\* C11: start(forceStart) arms one timer, of 0 ms when forceStart is true
\* and of the interval configured at the call otherwise, whatever the error
\* count; only the passing of time moves that timer, so a later setConfig
\* does not; and when it fires on a poller that is not connected the first
\* invocation begins.
StartSchedulesFirstInvocation ==
    [][\A p \in Pollers :
          /\ (lastOp'.op = "start" /\ lastOp'.p = p) =>
                timers'[p] = timers[p] (+) SetToBag({[kind |-> "start",
                    rem |-> IF lastOp'.a = 1 THEN 0 ELSE interval[p]]})
          /\ (lastOp'.op \in {"setConfig", "setAction", "stop", "settle"}) =>
                startTimers(timers'[p]) = startTimers(timers[p])
          /\ (lastOp'.op = "time") =>
                startTimers(timers'[p]) = shift(startTimers(timers[p]), lastOp'.a)
          /\ (lastOp'.op = "fire" /\ lastOp'.p = p /\ lastOp'.name = "start"
                /\ pc[p] = "idle") =>
                /\ invCount'[p] = invCount[p] + 1
                /\ pc'[p] # "idle"]_vars

\* C11 witness: 8000 ms after start(false), the interval then configured,
\* the start timer of a stopped poller is due, although the poller has
\* failed before (its backoff delay would be 16000 or more) and its
\* interval was set to 1000 in the meantime.
DelayedStartDue ==
    \E p \in Pollers :
        /\ lastOp.op = "time"
        /\ lastOp.a = DefaultInterval
        /\ [kind |-> "start", rem |-> 0] \in DOMAIN timers[p]
        /\ pc[p] = "idle"
        /\ errorCount[p] >= 1
        /\ interval[p] = 1000

\* The step is the settlement of an invocation of p the loop is waiting for.
Settlement(p, ok) ==
    /\ lastOp'.op = "settle"
    /\ lastOp'.p = p
    /\ lastOp'.ok = ok
    /\ lastOp'.a \notin abandoned[p]

\* C12: callbacks are called only when an invocation resolves, and a
\* rejection calls none and leaves the loop connected and waiting, with a
\* retry timer of the computed delay set.
OnlySuccessesDelivered ==
    [][\A p \in Pollers :
          /\ received'[p] # received[p] =>
                lastOp'.op = "settle" /\ lastOp'.p = p /\ lastOp'.ok
          /\ Settlement(p, FALSE) =>
                /\ received'[p] = received[p]
                /\ observers'[p] = observers[p]
                /\ connection'[p] = "live"
                /\ pc'[p] = "retryWait"
                /\ [kind |-> "retry", rem |-> expected'[p]] \in DOMAIN timers'[p]]_vars

\* C12 witness: the subscriber was called for invocations 1 and 3 and not
\* for invocation 2, which failed between them.
FailureSkipped ==
    \E p \in Pollers :
        /\ Len(received[p]) = 2
        /\ received[p][1].inv = 1
        /\ received[p][2].inv = 3
        /\ connection[p] = "live"

\* How often x occurs in the sequence.
occurrences(seq, x) == Cardinality({i \in DOMAIN seq : seq[i] = x})

\* C13: when an invocation resolves, each subscription made so far is called
\* once with it, after everything received before; nothing else calls a
\* callback (subscribing replays nothing), and the results received are in
\* invocation order.
DeliveredOnceInOrder ==
    [][\A p \in Pollers :
          /\ Settlement(p, TRUE) =>
                /\ Len(received'[p]) = Len(received[p]) + Len(observers[p])
                /\ SubSeq(received'[p], 1, Len(received[p])) = received[p]
                /\ \A cb \in Callbacks :
                      occurrences(received'[p], [cb |-> cb, inv |-> lastOp'.a])
                          = occurrences(observers[p], cb)
          /\ ~Settlement(p, TRUE) => received'[p] = received[p]
          /\ \A i, j \in DOMAIN received'[p] :
                i < j => received'[p][i].inv <= received'[p][j].inv]_vars

\* C13 witness: cb2 subscribed after the first result and before the
\* second; cb1 received both and cb2 the second only.
LateSubscriberSeen ==
    \E p \in Pollers :
        received[p] = <<[cb |-> "cb1", inv |-> 1], [cb |-> "cb1", inv |-> 2],
                        [cb |-> "cb2", inv |-> 2]>>

\* The step begins an invocation of p that fails before it returns a promise.
FailsAtOnce(p) ==
    /\ lastOp'.op = "fire"
    /\ lastOp'.p = p
    /\ invCount'[p] = invCount[p] + 1
    /\ pc'[p] = "retryWait"

\* C14: stop() and start() change none of errorCount, interval and
\* maxInterval, connecting changes them only by the failure of the
\* invocation it begins, and every failure, the first after a restart
\* included, adds one to the error count as it stands and computes
\* min(interval * 2^errorCount, maxInterval) from the result.
StopStartKeepBackoff ==
    [][\A p \in Pollers :
          /\ (lastOp'.op \in {"stop", "start"} /\ lastOp'.p = p) =>
                /\ errorCount'[p] = errorCount[p]
                /\ interval'[p] = interval[p]
                /\ maxInterval'[p] = maxInterval[p]
          /\ (lastOp'.op = "fire" /\ lastOp'.p = p /\ ~FailsAtOnce(p)) =>
                errorCount'[p] = errorCount[p]
          /\ (Settlement(p, FALSE) \/ FailsAtOnce(p)) =>
                /\ errorCount'[p] = errorCount[p] + 1
                /\ interval'[p] = interval[p]
                /\ maxInterval'[p] = maxInterval[p]
                /\ expected'[p] = Least({interval[p] * 2^(errorCount[p] + 1),
                                         maxInterval[p]})]_vars

\* C14 witness: invocation 1 failed, stop() was called while invocation 2
\* was in flight, and the failure of invocation 3, begun by the restart,
\* has brought the error count to 2.
FailureAfterRestart ==
    \E p \in Pollers :
        /\ lastOp.op = "settle"
        /\ lastOp.p = p
        /\ ~lastOp.ok
        /\ lastOp.a = 3
        /\ abandoned[p] = {2}
        /\ errorCount[p] = 2
        /\ expected[p] = Least({interval[p] * 4, maxInterval[p]})

\* C15: a setConfig call on a poller whose action returns a promise sets,
\* fires and cancels no timer, begins and aborts no invocation, and leaves
\* the loop where it is.
SetConfigArmsNothing ==
    [][\A p \in Pollers :
          (lastOp'.op = "setConfig" /\ lastOp'.p = p /\ returnsPromise(action[p])) =>
          /\ timers'[p] = timers[p]
          /\ pending'[p] = pending[p]
          /\ invCount'[p] = invCount[p]
          /\ pc'[p] = pc[p]]_vars

\* C16: an invocation that returns a promise runs the action that is set at
\* the step where it begins, and setAction changes the action only: the
\* invocations in flight, the timers and the loop stay as they are.
InvocationRunsCurrentAction ==
    [][\A p \in Pollers :
          /\ (invCount'[p] = invCount[p] + 1 /\ returnsPromise(action[p])) =>
                /\ action'[p] = action[p]
                /\ pending'[p] = pending[p] \cup
                      {[inv |-> invCount'[p], act |-> action[p], attached |-> TRUE]}
          /\ (lastOp'.op = "setAction" /\ lastOp'.p = p) =>
                /\ action'[p] = lastOp'.a
                /\ pending'[p] = pending[p]
                /\ invCount'[p] = invCount[p]
                /\ timers'[p] = timers[p]
                /\ pc'[p] = pc[p]]_vars

\* C16 witness: setAction(2) has returned while invocation 1, which runs
\* action 1, is in flight and attached to the loop.
ReplacedWhileInFlight ==
    \E p \in Pollers :
        /\ lastOp.op = "setAction"
        /\ lastOp.p = p
        /\ lastOp.a = 2
        /\ action[p] = 2
        /\ pending[p] = {[inv |-> 1, act |-> 1, attached |-> TRUE]}

\* C17: every invocation begun with an action set calls that action, whose
\* promise the loop then waits for.
ActionCalledEachCycle ==
    [][\A p \in Pollers : (invCount'[p] = invCount[p] + 1 /\ action[p] # 0) =>
          /\ pc'[p] = "invoking"
          /\ \E pr \in pending'[p] \ pending[p] :
                pr.inv = invCount'[p] /\ pr.act = action[p] /\ pr.attached]_vars

\* C18: constructing a poller under a name that is not registered succeeds
\* and registers the new poller under that name, whether or not a config
\* is given.
CreateOnFreeNameSucceeds ==
    [][(lastOp'.op = "create" /\ getPollerIn(pollers, lastOp'.name) = 0) =>
          /\ lastOp'.ok
          /\ getPollerIn(pollers', lastOp'.name) = lastOp'.p
          /\ exists'[lastOp'.p]]_vars

\* C19: a call on poller p, and a timer or a promise of p, leaves every
\* field, timer and delivery of every other poller as it was, and the
\* passing of time changes nothing of a poller but the time left on its
\* timers.
PollersIndependent ==
    [][\A q \in Pollers :
          /\ (lastOp'.p # q /\ lastOp'.op # "time") => Poller(q)' = Poller(q)
          /\ (lastOp'.op = "time") =>
                [Poller(q)' EXCEPT !.timers = 0, !.elapsed = 0]
                    = [Poller(q) EXCEPT !.timers = 0, !.elapsed = 0]]_vars

\* C19 witness: both pollers are running; poller 2 has just delivered its
\* first result to its subscriber, while poller 1, which has no action, has
\* failed and waits to retry.
TwoPollersRunning ==
    /\ lastOp.op = "settle"
    /\ lastOp.p = 2
    /\ lastOp.ok
    /\ received[2] = <<[cb |-> "cb1", inv |-> 1]>>
    /\ errorCount[2] = 0
    /\ connection[1] = "live"
    /\ pc[1] = "retryWait"
    /\ errorCount[1] >= 1
    /\ received[1] = <<>>

\* The poller is started: a start timer is set or the loop is connected.
Started(p) == timerCount(timers[p], "start") > 0 \/ pc[p] # "idle"

\* C20: a poller that is started and never stopped goes on invoking: from
\* any state in which it is started, whatever the settlements so far, the
\* number of invocations begun reaches any number in the end (here
\* MaxInvocations, where the model stops counting).
InvokedAgain == Started(1) ~> (invCount[1] = MaxInvocations)

\* C20 witness: invocation 3 has begun after invocations 1 and 2 were
\* rejected one after the other.
InvokedAfterTwoFailures ==
    \E p \in Pollers :
        /\ lastOp.op = "fire"
        /\ lastOp.p = p
        /\ lastOp.name = "retry"
        /\ pending[p] = {[inv |-> 3, act |-> 1, attached |-> TRUE]}
        /\ errorCount[p] = 2

\* C21: stop(), start() and the connection made when a start timer fires
\* leave the subscriptions as they are and call no callback, and an
\* invocation that resolves, those begun after a restart included, is handed
\* once to each subscription held before.
SubscriptionsSurviveRestart ==
    [][\A p \in Pollers :
          /\ (lastOp'.op \in {"stop", "start", "fire"} /\ lastOp'.p = p) =>
                /\ observers'[p] = observers[p]
                /\ received'[p] = received[p]
          /\ Settlement(p, TRUE) =>
                /\ observers'[p] = observers[p]
                /\ received'[p] = received[p] \o
                      [k \in 1..Len(observers[p]) |->
                          [cb |-> observers[p][k], inv |-> lastOp'.a]]]_vars

\* C21 witness: cb1, subscribed before the first start, received the result
\* of invocation 1; stop() was called while invocation 2 was in flight; and
\* the result of invocation 3, begun after the restart, has just reached cb1.
DeliveredAfterRestart ==
    \E p \in Pollers :
        /\ lastOp.op = "settle"
        /\ lastOp.p = p
        /\ lastOp.ok
        /\ lastOp.a = 3
        /\ abandoned[p] = {2}
        /\ observers[p] = <<"cb1">>
        /\ received[p] = <<[cb |-> "cb1", inv |-> 1], [cb |-> "cb1", inv |-> 3]>>

====
